---- MODULE Spec2Model ----
(***************************************************************************)
(* Model of the Crossmint support bot backend (backend/main.py): the       *)
(* /query endpoint ask_question, the retrieval-augmented pipeline          *)
(* generate_response / semantic_search / fallback_response, and the        *)
(* single event loop uvicorn runs the handlers on.                         *)
(*                                                                         *)
(* Numbers that are floats in the program (distances, similarities,        *)
(* relevance scores) are fixed-point integers in tenths: 10 is 1.0.        *)
(* Strings are sequences of characters (queries) or of text fragments      *)
(* (prompts, responses).  The timestamp field of QueryResponse is the      *)
(* wall clock and is left out.                                             *)
(***************************************************************************)
EXTENDS Integers, Sequences, FiniteSets, TLC

\* ------------------------------------------------------------------ bounds

\* Number of client connections that can have a request in flight.
NumRequests == 2

\* Longest list the vector index returns (stands for n_results = 5).
MaxResults == 2

Reqs == 1..NumRequests

\* ------------------------------------------------------- values and inputs

\* The float 1 of "1 - distance", in tenths.
One == 10

\* relevance_score = 0.5 of the synthetic fallback source, in tenths.
FallbackScore == 5

\* Distances the index can return, in tenths.  The collection is created
\* without a distance function, so the index's default (squared L2) applies:
\* distances are >= 0 and not bounded by 1.0.
Distances == {0, 5, 15}

\* Request bodies: the empty string, whitespace only, a word, a word with
\* surrounding whitespace, two words.
Queries ==
  { <<>>, <<" ", " ">>, <<"a">>, <<" ", "a", " ">>, <<"a", " ", "a">> }

\* The ranked chunk texts the index holds.
Corpus == <<"doc1", "doc2", "doc3", "doc4", "doc5">>

\* A metadata key that is not in the dict.
Absent == "<absent>"

\* Metadata values: None (a record stored without metadata), a dict without
\* title and url, a dict with a title only, a dict with both.
NoneMeta == [kind |-> "None", title |-> Absent, url |-> Absent]

Metadatas ==
  { NoneMeta,
    [kind |-> "dict", title |-> Absent, url |-> Absent],
    [kind |-> "dict", title |-> "General Knowledge", url |-> Absent],
    [kind |-> "dict", title |-> "Minting Guide", url |-> "https://docs.crossmint.com/minting"] }

\* Text the completion service generates, and the causes it fails with.
Answers == {"Use the /mint endpoint"}

Causes == {"Rate limit exceeded", "Request timed out"}

SeqsUpTo(S, n) == UNION { [1..k -> S] : k \in 0..n }

\* The index ranks its results nearest first.
Ranked(ds) == \A i \in 1..(Len(ds) - 1) : ds[i] <= ds[i + 1]

\* What chroma_collection.query returns for the single query vector: the
\* batch [0] of each of the three included lists, at most n_results long.
IndexResults ==
  [ documents : { SubSeq(Corpus, 1, k) : k \in 0..MaxResults },
    metadatas : SeqsUpTo(Metadatas, MaxResults),
    distances : { ds \in SeqsUpTo(Distances, MaxResults) : Ranked(ds) } ]

EmptyResults == [documents |-> <<>>, metadatas |-> <<>>, distances |-> <<>>]

NoResponse == [query |-> <<>>, response |-> <<>>, sources |-> <<>>, method |-> "None"]

NoError == [status_code |-> 0, detail |-> "None"]

NoCalls == [embed |-> 0, index |-> 0, completion |-> 0]

\* ------------------------------------------------------------------- state

VARIABLES
  apiKey,            \* os.getenv('OPENAI_API_KEY') is set
  embedding_model,   \* the global embedding_model is loaded
  chroma_collection, \* the global chroma_collection handle is present
  loop,              \* request whose handler the event loop is running, 0 if none
  pc,                \* position of each request
  query,             \* request.query, then the stripped query inside the pipeline
  results,           \* semantic_search: the index's raw answer
  relevant_docs,     \* generate_response: the formatted snippets
  sources,           \* generate_response: the Source list
  user_prompt,       \* the user message of the completion call
  response,          \* the QueryResponse the handler returns
  error,             \* the HTTPException the handler raises
  searchPath,        \* how semantic_search ended
  completion,        \* how the completion call ended
  calls              \* calls made to the embedder, the index and the completer

vars == << apiKey, embedding_model, chroma_collection, loop, pc, query, results,
           relevant_docs, sources, user_prompt, response, error, searchPath,
           completion, calls >>

config == << apiKey, embedding_model, chroma_collection >>

\* --------------------------------------------------------- pure functions

RECURSIVE LStrip(_)
LStrip(s) == IF s # <<>> /\ Head(s) = " " THEN LStrip(Tail(s)) ELSE s

RECURSIVE RStrip(_)
RStrip(s) ==
  IF s # <<>> /\ s[Len(s)] = " " THEN RStrip(SubSeq(s, 1, Len(s) - 1)) ELSE s

\* str.strip()
Strip(s) == RStrip(LStrip(s))

\* "not request.query.strip()"
IsEmptyQueryNoStrip(q) == q = <<>>
IsEmptyQuery(q) == Strip(q) = <<>>

\* "not os.getenv('OPENAI_API_KEY')"
KeyMissingNever == FALSE
KeyMissing == ~apiKey

\* "not chroma_collection or not embedding_model"
SearchUnavailable == ~chroma_collection \/ ~embedding_model

\* "1 - results['distances'][0][i]"
Similarity(d) == One - d

\* The loop of semantic_search over range(len(documents)) raises IndexError
\* when the metadata or the distance list is shorter than the document list.
FormatRaises(res) ==
  \/ Len(res.metadatas) < Len(res.documents)
  \/ Len(res.distances) < Len(res.documents)

FormatResults(res) ==
  [ i \in 1..Len(res.documents) |->
      [ content |-> res.documents[i],
        metadata |-> res.metadatas[i],
        similarity |-> Similarity(res.distances[i]) ] ]

\* dict.get(key, default)
MetaGet(m, key, default) == IF m[key] = Absent THEN default ELSE m[key]

\* doc['metadata'].get raises AttributeError when the metadata is None.
ComposeRaises(docs) == \E i \in 1..Len(docs) : docs[i].metadata.kind = "None"

ToSource(doc) ==
  [ title |-> MetaGet(doc.metadata, "title", "Crossmint Documentation"),
    url |-> MetaGet(doc.metadata, "url", "https://docs.crossmint.com"),
    relevance_score |-> doc.similarity ]

Reverse(s) == [ i \in 1..Len(s) |-> s[Len(s) + 1 - i] ]

BuildSources(docs) == [ i \in 1..Len(docs) |-> ToSource(docs[i]) ]

ContextPartsReversed(docs) == Reverse([ i \in 1..Len(docs) |-> docs[i].content ])
ContextParts(docs) == [ i \in 1..Len(docs) |-> docs[i].content ]

\* sep.join(parts)
RECURSIVE Join(_, _)
Join(parts, sep) ==
  IF parts = <<>> THEN <<>>
  ELSE IF Len(parts) = 1 THEN <<parts[1]>>
  ELSE <<parts[1], sep>> \o Join(Tail(parts), sep)

Sep == "\n\n"

UserPrompt(docs, q) ==
  <<"Context from Crossmint documentation:\n">>
    \o Join(ContextParts(docs), Sep)
    \o <<"\n\nQuestion: ">> \o q
    \o <<"\n\nPlease provide a helpful answer based on the documentation context above.">>

SyntheticSource ==
  [ title |-> "General Knowledge",
    url |-> "https://docs.crossmint.com",
    relevance_score |-> FallbackScore ]

FallbackSourcesNone == <<>>
FallbackSources == <<SyntheticSource>>

RagResponse(q, text, srcs) ==
  [ query |-> q, response |-> <<text>>, sources |-> srcs,
    method |-> "RAG (Full Knowledge Base)" ]

RagErrorDropsSources(q, cause, srcs) ==
  [ query |-> q,
    response |-> <<"I encountered an error generating a response: ", cause, ". Please try again.">>,
    sources |-> <<>>,
    method |-> "Error" ]
RagError(q, cause, srcs) ==
  [ query |-> q,
    response |-> <<"I encountered an error generating a response: ", cause, ". Please try again.">>,
    sources |-> srcs,
    method |-> "Error" ]

FallbackOkLabelledRag(q, text) ==
  [ query |-> q, response |-> <<text>>, sources |-> FallbackSources,
    method |-> "RAG (Full Knowledge Base)" ]
FallbackOk(q, text) ==
  [ query |-> q, response |-> <<text>>, sources |-> FallbackSources,
    method |-> "Fallback (General Knowledge)" ]

FallbackError(q, cause) ==
  [ query |-> q,
    response |-> <<"I'm having trouble generating a response right now. Error: ", cause,
                   ". Please try again or check the Crossmint documentation directly.">>,
    sources |-> <<>>,
    method |-> "Error" ]

InvalidQuery == [status_code |-> 400, detail |-> "Query cannot be empty"]

KeyNotConfigured == [status_code |-> 500, detail |-> "OpenAI API key not configured"]

ProcessingError == [status_code |-> 500, detail |-> "Error processing query"]

\* ------------------------------------------------------------------- Init

\* The state once lifespan has run: the embedding model is loaded (a failure
\* to load it aborts the startup), the collection handle is present or was
\* set to None by the except branch.
Init ==
  /\ apiKey \in BOOLEAN
  /\ embedding_model = TRUE
  /\ chroma_collection \in BOOLEAN
  /\ loop = 0
  /\ pc = [r \in Reqs |-> "idle"]
  /\ query = [r \in Reqs |-> <<>>]
  /\ results = [r \in Reqs |-> EmptyResults]
  /\ relevant_docs = [r \in Reqs |-> <<>>]
  /\ sources = [r \in Reqs |-> <<>>]
  /\ user_prompt = [r \in Reqs |-> <<>>]
  /\ response = [r \in Reqs |-> NoResponse]
  /\ error = [r \in Reqs |-> NoError]
  /\ searchPath = [r \in Reqs |-> "none"]
  /\ completion = [r \in Reqs |-> "none"]
  /\ calls = [r \in Reqs |-> NoCalls]

\* ---------------------------------------------------------------- actions

\* A client posts a request to /query; it waits in the server's socket until
\* the event loop gets to it.
Send(r) ==
  /\ pc[r] = "idle"
  /\ pc' = [pc EXCEPT ![r] = "pending"]
  /\ UNCHANGED << config, loop, query, results, relevant_docs, sources,
                  user_prompt, response, error, searchPath, completion, calls >>

\* The event loop, running no handler, reads a waiting request, parses its
\* body into QueryRequest(query = q) and starts the coroutine ask_question.
\* The coroutine has no await: it keeps the loop until it returns or raises.
Start(r) ==
  /\ pc[r] = "pending"
  /\ loop = 0
  /\ loop' = r
  /\ \E q \in Queries : query' = [query EXCEPT ![r] = q]
  /\ pc' = [pc EXCEPT ![r] = "start"]
  /\ UNCHANGED << config, results, relevant_docs, sources, user_prompt,
                  response, error, searchPath, completion, calls >>

\* ask_question up to the call of generate_response.
Validate(r) ==
  /\ pc[r] = "start"
  /\ loop = r
  /\ IF IsEmptyQuery(query[r])
       THEN /\ error' = [error EXCEPT ![r] = InvalidQuery]
            /\ pc' = [pc EXCEPT ![r] = "raised"]
            /\ query' = query
       ELSE IF KeyMissing
         THEN /\ error' = [error EXCEPT ![r] = KeyNotConfigured]
              /\ pc' = [pc EXCEPT ![r] = "raised"]
              /\ query' = query
         ELSE /\ error' = error
              /\ pc' = [pc EXCEPT ![r] = "retrieving"]
              /\ query' = [query EXCEPT ![r] = Strip(query[r])]
  /\ UNCHANGED << config, loop, results, relevant_docs, sources, user_prompt,
                  response, searchPath, completion, calls >>

\* semantic_search: the availability test, then the call of the embedder.
SearchEntry(r) ==
  /\ pc[r] = "retrieving"
  /\ loop = r
  /\ IF SearchUnavailable
       THEN /\ searchPath' = [searchPath EXCEPT ![r] = "unavailable"]
            /\ pc' = [pc EXCEPT ![r] = "retrieved"]
            /\ calls' = calls
       ELSE /\ searchPath' = searchPath
            /\ pc' = [pc EXCEPT ![r] = "embedding"]
            /\ calls' = [calls EXCEPT ![r].embed = @ + 1]
  /\ UNCHANGED << config, loop, query, results, relevant_docs, sources,
                  user_prompt, response, error, completion >>

\* embedding_model.encode returns, and the index is queried.
EmbedReturns(r) ==
  /\ pc[r] = "embedding"
  /\ loop = r
  /\ pc' = [pc EXCEPT ![r] = "querying"]
  /\ calls' = [calls EXCEPT ![r].index = @ + 1]
  /\ UNCHANGED << config, loop, query, results, relevant_docs, sources,
                  user_prompt, response, error, searchPath, completion >>

\* embedding_model.encode raises: the except branch returns [].
EmbedRaises(r) ==
  /\ pc[r] = "embedding"
  /\ loop = r
  /\ searchPath' = [searchPath EXCEPT ![r] = "embed_error"]
  /\ pc' = [pc EXCEPT ![r] = "retrieved"]
  /\ UNCHANGED << config, loop, query, results, relevant_docs, sources,
                  user_prompt, response, error, completion, calls >>

\* chroma_collection.query returns its lists.
QueryReturns(r) ==
  /\ pc[r] = "querying"
  /\ loop = r
  /\ \E res \in IndexResults : results' = [results EXCEPT ![r] = res]
  /\ pc' = [pc EXCEPT ![r] = "formatting"]
  /\ UNCHANGED << config, loop, query, relevant_docs, sources, user_prompt,
                  response, error, searchPath, completion, calls >>

\* chroma_collection.query raises: the except branch returns [].
QueryRaises(r) ==
  /\ pc[r] = "querying"
  /\ loop = r
  /\ searchPath' = [searchPath EXCEPT ![r] = "query_error"]
  /\ pc' = [pc EXCEPT ![r] = "retrieved"]
  /\ UNCHANGED << config, loop, query, results, relevant_docs, sources,
                  user_prompt, response, error, completion, calls >>

\* The formatting loop of semantic_search and its return; the raw lists are
\* locals of semantic_search and are gone afterwards.
Format(r) ==
  /\ pc[r] = "formatting"
  /\ loop = r
  /\ IF FormatRaises(results[r])
       THEN /\ relevant_docs' = [relevant_docs EXCEPT ![r] = <<>>]
            /\ searchPath' = [searchPath EXCEPT ![r] = "format_error"]
       ELSE /\ relevant_docs' = [relevant_docs EXCEPT ![r] = FormatResults(results[r])]
            /\ searchPath' = [searchPath EXCEPT ![r] = "ok"]
  /\ results' = [results EXCEPT ![r] = EmptyResults]
  /\ pc' = [pc EXCEPT ![r] = "retrieved"]
  /\ UNCHANGED << config, loop, query, sources, user_prompt, response, error,
                  completion, calls >>

\* generate_response after semantic_search: with no snippet it calls
\* fallback_response, which calls the completer with the raw question;
\* otherwise it builds the context, the sources and the prompt, and calls the
\* completer.  An exception of the source-building loop is outside every try of
\* generate_response: ask_question turns it into an HTTPException.
Compose(r) ==
  /\ pc[r] = "retrieved"
  /\ loop = r
  /\ IF relevant_docs[r] = <<>>
       THEN /\ user_prompt' = [user_prompt EXCEPT ![r] = query[r]]
            /\ pc' = [pc EXCEPT ![r] = "unaided"]
            /\ calls' = [calls EXCEPT ![r].completion = @ + 1]
            /\ UNCHANGED << sources, error >>
       ELSE IF ComposeRaises(relevant_docs[r])
         THEN /\ error' = [error EXCEPT ![r] = ProcessingError]
              /\ pc' = [pc EXCEPT ![r] = "raised"]
              /\ UNCHANGED << sources, user_prompt, calls >>
         ELSE /\ sources' = [sources EXCEPT ![r] = BuildSources(relevant_docs[r])]
              /\ user_prompt' = [user_prompt EXCEPT ![r] = UserPrompt(relevant_docs[r], query[r])]
              /\ pc' = [pc EXCEPT ![r] = "grounded"]
              /\ calls' = [calls EXCEPT ![r].completion = @ + 1]
              /\ error' = error
  /\ UNCHANGED << config, loop, query, results, relevant_docs, response,
                  searchPath, completion >>

\* The completion call of generate_response returns text, or raises.
RagComplete(r) ==
  /\ pc[r] = "grounded"
  /\ loop = r
  /\ \/ \E text \in Answers :
          /\ response' = [response EXCEPT ![r] = RagResponse(query[r], text, sources[r])]
          /\ completion' = [completion EXCEPT ![r] = "ok"]
     \/ \E cause \in Causes :
          /\ response' = [response EXCEPT ![r] = RagError(query[r], cause, sources[r])]
          /\ completion' = [completion EXCEPT ![r] = cause]
  /\ pc' = [pc EXCEPT ![r] = "returned"]
  /\ UNCHANGED << config, loop, query, results, relevant_docs, sources,
                  user_prompt, error, searchPath, calls >>

\* The completion call of fallback_response returns text, or raises.
FallbackComplete(r) ==
  /\ pc[r] = "unaided"
  /\ loop = r
  /\ \/ \E text \in Answers :
          /\ response' = [response EXCEPT ![r] = FallbackOk(query[r], text)]
          /\ completion' = [completion EXCEPT ![r] = "ok"]
     \/ \E cause \in Causes :
          /\ response' = [response EXCEPT ![r] = FallbackError(query[r], cause)]
          /\ completion' = [completion EXCEPT ![r] = cause]
  /\ pc' = [pc EXCEPT ![r] = "returned"]
  /\ UNCHANGED << config, loop, query, results, relevant_docs, sources,
                  user_prompt, error, searchPath, calls >>

\* The handler has returned or raised: the server sends the response, the
\* coroutine's frame is dropped and the event loop is free again.
Respond(r) ==
  /\ pc[r] \in {"returned", "raised"}
  /\ loop = r
  /\ loop' = 0
  /\ pc' = [pc EXCEPT ![r] = "idle"]
  /\ query' = [query EXCEPT ![r] = <<>>]
  /\ relevant_docs' = [relevant_docs EXCEPT ![r] = <<>>]
  /\ sources' = [sources EXCEPT ![r] = <<>>]
  /\ user_prompt' = [user_prompt EXCEPT ![r] = <<>>]
  /\ response' = [response EXCEPT ![r] = NoResponse]
  /\ error' = [error EXCEPT ![r] = NoError]
  /\ searchPath' = [searchPath EXCEPT ![r] = "none"]
  /\ completion' = [completion EXCEPT ![r] = "none"]
  /\ calls' = [calls EXCEPT ![r] = NoCalls]
  /\ UNCHANGED << config, results >>

Next ==
  \E r \in Reqs :
    \/ Send(r)
    \/ Start(r)
    \/ Validate(r)
    \/ SearchEntry(r)
    \/ EmbedReturns(r)
    \/ EmbedRaises(r)
    \/ QueryReturns(r)
    \/ QueryRaises(r)
    \/ Format(r)
    \/ Compose(r)
    \/ RagComplete(r)
    \/ FallbackComplete(r)
    \/ Respond(r)

Spec == Init /\ [][Next]_vars

\* ------------------------------------------------------------------ claims

Modes == { "RAG (Full Knowledge Base)", "Fallback (General Knowledge)", "Error" }

\* The handler of r has ended, by a return or by a raise.
Ended(r) == pc[r] \in {"returned", "raised"}

\* r's request was accepted: its query is not blank and the credential is set.
Accepted(r) == loop = r /\ pc[r] # "start" /\ Strip(query[r]) # <<>> /\ apiKey

\* C1: for every query that is non-empty after trimming, with the credential
\* configured, the handler ends with one QueryResponse whose method is RAG,
\* Fallback or Error, and raises nothing, whatever the index returned and
\* whatever the completer did.
C1_AlwaysAnswerResult ==
  \A r \in Reqs :
    Accepted(r) /\ Ended(r) =>
      /\ pc[r] = "returned"
      /\ error[r] = NoError
      /\ response[r].method \in Modes

\* C2: a query that is empty or whitespace-only is rejected with the
\* InvalidQuery client error (400), and the handler that rejects it makes no
\* embedder call, no index call and no completion call and builds no response.
C2_EmptyQueryRejected ==
  \A r \in Reqs :
    loop = r /\ pc[r] # "start" /\ Strip(query[r]) = <<>> =>
      /\ pc[r] = "raised"
      /\ error[r] = InvalidQuery
      /\ error[r].status_code = 400
      /\ calls[r] = NoCalls
      /\ response[r] = NoResponse

C2_Witness ==
  \E r \in Reqs :
    pc[r] = "raised" /\ query[r] = <<" ", " ">> /\ error[r] = InvalidQuery

\* C3: with the completion credential absent, a non-empty query is rejected
\* with the key-not-configured error, which differs from the empty-query
\* error, and no embedder, index or completion call is made for it.
C3_MissingCredentialRejected ==
  \A r \in Reqs :
    loop = r /\ pc[r] # "start" /\ Strip(query[r]) # <<>> /\ ~apiKey =>
      /\ pc[r] = "raised"
      /\ error[r] = KeyNotConfigured
      /\ error[r] # InvalidQuery
      /\ error[r].status_code # InvalidQuery.status_code
      /\ calls[r] = NoCalls
      /\ response[r] = NoResponse

C3_Witness ==
  \E r \in Reqs :
    pc[r] = "raised" /\ ~apiKey /\ query[r] = <<"a">> /\ error[r] = KeyNotConfigured

\* The vector index was unavailable to r: the collection handle is absent, or
\* the lookup raised.
IndexUnavailable(r) == searchPath[r] \in {"unavailable", "query_error"}

OneGeneralKnowledge(srcs) == Len(srcs) = 1 /\ srcs[1].title = "General Knowledge"

\* C4 as stated: with the vector index unavailable, every accepted query ends
\* with a Fallback result whose sources are one entry titled "General
\* Knowledge", and nothing is raised.
C4_AlwaysFallback ==
  \A r \in Reqs :
    Accepted(r) /\ Ended(r) /\ IndexUnavailable(r) =>
      /\ pc[r] = "returned"
      /\ response[r].method = "Fallback (General Knowledge)"
      /\ OneGeneralKnowledge(response[r].sources)

\* C4 as amended: with the vector index unavailable, every accepted query ends
\* with a returned result and nothing is raised; the result is Fallback with
\* one source titled "General Knowledge" when the completion call succeeds,
\* and Error with no sources when the completion call raises.
C4_FallbackOrError ==
  \A r \in Reqs :
    Accepted(r) /\ Ended(r) /\ IndexUnavailable(r) =>
      /\ pc[r] = "returned"
      /\ error[r] = NoError
      /\ IF completion[r] = "ok"
           THEN /\ response[r].method = "Fallback (General Knowledge)"
                /\ OneGeneralKnowledge(response[r].sources)
           ELSE /\ response[r].method = "Error"
                /\ response[r].sources = <<>>

C4_Witness ==
  \E r \in Reqs :
    /\ pc[r] = "returned"
    /\ searchPath[r] = "query_error"
    /\ completion[r] = "ok"
    /\ response[r].method = "Fallback (General Knowledge)"

\* The title and url a snippet carries into the sources list.
SnippetTitle(doc) ==
  IF doc.metadata.title = Absent THEN "Crossmint Documentation" ELSE doc.metadata.title

SnippetUrl(doc) ==
  IF doc.metadata.url = Absent THEN "https://docs.crossmint.com" ELSE doc.metadata.url

\* srcs is the snippet list docs, entry by entry and in the same order.
SourcesOf(srcs, docs) ==
  /\ Len(srcs) = Len(docs)
  /\ \A i \in 1..Len(docs) :
       /\ srcs[i].title = SnippetTitle(docs[i])
       /\ srcs[i].url = SnippetUrl(docs[i])
       /\ srcs[i].relevance_score = docs[i].similarity

\* C5: when the completer raises after retrieval returned at least one
\* snippet, the result has method Error, its sources are the retrieved
\* snippets in order (not empty), and its response is non-empty text that
\* contains the cause of the error.
C5_GroundedFailureKeepsSources ==
  \A r \in Reqs :
    pc[r] = "returned" /\ relevant_docs[r] # <<>> /\ completion[r] \in Causes =>
      /\ response[r].method = "Error"
      /\ response[r].sources # <<>>
      /\ SourcesOf(response[r].sources, relevant_docs[r])
      /\ response[r].response # <<>>
      /\ \E i \in 1..Len(response[r].response) : response[r].response[i] = completion[r]

C5_Witness ==
  \E r \in Reqs :
    /\ pc[r] = "returned"
    /\ Len(relevant_docs[r]) = 2
    /\ completion[r] = "Rate limit exceeded"
    /\ response[r].method = "Error"

\* The step in which semantic_search formats the index's answer for r.
FormatStep(r) == pc[r] = "formatting" /\ pc'[r] = "retrieved"

\* The grounded prompt of r holds the snippet contents in rank order, joined
\* by blank lines, before the question; the sources follow the same order and
\* carry the snippets' similarities.
C6_Composed(r) ==
  pc[r] \in {"grounded", "returned"} /\ relevant_docs[r] # <<>> =>
    LET docs == relevant_docs[r]
        K == Len(docs)
        p == user_prompt[r]
    IN /\ Len(p) > 2 * K
       /\ \A i \in 1..K : p[2 * i] = docs[i].content
       /\ \A i \in 1..(K - 1) : p[2 * i + 1] = Sep
       /\ p[2 * K + 1] = "\n\nQuestion: "
       /\ Len(sources[r]) = K
       /\ \A i \in 1..K : sources[r][i].relevance_score = docs[i].similarity
       /\ pc[r] = "returned" => response[r].sources = sources[r]

\* C6: when the index returns K ranked snippets, the snippets keep the index's
\* order and carry 1 - distance; the context of the grounded user instruction
\* holds their contents in that order, and the result's sources are K entries
\* in the same order, the i-th with the i-th similarity as relevance_score.
C6_RankOrderPreserved ==
  [][ \A r \in Reqs :
        /\ FormatStep(r) /\ relevant_docs'[r] # <<>> =>
             /\ Len(relevant_docs'[r]) = Len(results[r].documents)
             /\ \A i \in 1..Len(results[r].documents) :
                  /\ relevant_docs'[r][i].content = results[r].documents[i]
                  /\ relevant_docs'[r][i].similarity = One - results[r].distances[i]
        /\ C6_Composed(r)' ]_vars

C6_Witness ==
  \E r \in Reqs :
    /\ pc[r] = "returned"
    /\ response[r].method = "RAG (Full Knowledge Base)"
    /\ Len(response[r].sources) = 2
    /\ response[r].sources[1].relevance_score > response[r].sources[2].relevance_score

\* Method and sources of a returned result follow from the retrieval and the
\* completion.
C7_Modes(r) ==
  pc[r] = "returned" =>
    /\ response[r].method = "RAG (Full Knowledge Base)"
         <=> (relevant_docs[r] # <<>> /\ completion[r] = "ok")
    /\ response[r].method = "Fallback (General Knowledge)"
         <=> (relevant_docs[r] = <<>> /\ completion[r] = "ok")
    /\ response[r].method = "Fallback (General Knowledge)" =>
         response[r].sources =
           << [ title |-> "General Knowledge", url |-> "https://docs.crossmint.com",
                relevance_score |-> 5 ] >>

C7_RagNeverSynthetic(r) ==
  pc[r] = "returned" /\ response[r].method = "RAG (Full Knowledge Base)" =>
    response[r].sources #
      << [ title |-> "General Knowledge", url |-> "https://docs.crossmint.com",
           relevance_score |-> 5 ] >>

WellFormed(res, i) ==
  /\ i <= Len(res.documents) /\ i <= Len(res.metadatas) /\ i <= Len(res.distances)
  /\ res.metadatas[i].kind = "dict"
  /\ res.metadatas[i].title # Absent
  /\ res.metadatas[i].url # Absent

\* The contents of the well-formed results of an index answer, in order.
WellFormedContents(res) ==
  LET all == [ i \in 1..Len(res.documents) |-> i ]
      kept == SelectSeq(all, LAMBDA i : WellFormed(res, i))
  IN [ k \in 1..Len(kept) |-> res.documents[kept[k]] ]

\* C8: semantic_search returns a snippet for exactly the well-formed results
\* of the index's answer (a result of mismatched lists or with a missing field
\* is dropped, the others are kept), and no source carries a substituted title
\* or url.
C8_MalformedDropped ==
  [][ \A r \in Reqs :
        /\ FormatStep(r) =>
             [ i \in 1..Len(relevant_docs'[r]) |-> relevant_docs'[r][i].content ]
               = WellFormedContents(results[r])
        /\ \A i \in 1..Len(sources'[r]) :
             /\ sources'[r][i].title # "Crossmint Documentation"
             /\ relevant_docs'[r][i].metadata.url # Absent ]_vars

\* r is inside a call of the embedder, the index or the completer.
InSlowCall(r) == pc[r] \in {"embedding", "querying", "grounded", "unaided"}

\* C9: while one request is inside a slow embedding, index or completion
\* call, another request in flight can make progress: its handler can start.
C9_NonBlocking ==
  \A r \in Reqs : \A q \in Reqs \ {r} :
    InSlowCall(r) /\ pc[q] = "pending" => ENABLED Start(q)

\* C10: every snippet's similarity, and every relevance_score of a returned
\* RAG or Error result, is in [0, 1].
C10_SimilarityInRange ==
  \A r \in Reqs :
    /\ \A i \in 1..Len(relevant_docs[r]) :
         0 <= relevant_docs[r][i].similarity /\ relevant_docs[r][i].similarity <= One
    /\ pc[r] = "returned" /\ response[r].method # "Fallback (General Knowledge)" =>
         \A i \in 1..Len(response[r].sources) :
           /\ 0 <= response[r].sources[i].relevance_score
           /\ response[r].sources[i].relevance_score <= One

\* C11: no stage is retried.  For every request the embedder and the index
\* are called at most once and the completer at most once; every accepted
\* request that has ended called the completer exactly once; and a failed
\* completion call ends the request with one returned Error result, with no
\* second completion call.
C11_NoRetry ==
  \A r \in Reqs :
    /\ calls[r].embed <= 1
    /\ calls[r].index <= 1
    /\ calls[r].completion <= 1
    /\ Accepted(r) /\ Ended(r) => calls[r].completion = 1
    /\ completion[r] \in Causes =>
         /\ pc[r] = "returned"
         /\ response[r].method = "Error"
         /\ calls[r].completion = 1

====
